---- MODULE Spec2Model ----
(***************************************************************************)
(* The CRT television portfolio: the power/channel state machine of        *)
(* CRTMonitor.tsx, the power button of TVControls.tsx, the rotary dial of  *)
(* RotaryDial.tsx, the audio initialisation of soundEffects.ts and the two *)
(* data providers of githubApi.ts.                                         *)
(*                                                                         *)
(* Handlers run to completion on the UI event loop, and the component is   *)
(* re-rendered between two events, so every handler reads the state of the *)
(* latest render.  A setTimeout is a pending entry that fires at some      *)
(* later moment; entries of one kind share one duration and therefore fire *)
(* in the order they were scheduled.                                       *)
(***************************************************************************)
EXTENDS Integers, Sequences, FiniteSets

\* ---------------------------------------------------------------- bounds
\* most setTimeout entries of one kind that are pending together
MaxTimers == 2
\* how far, in degrees, a drag is followed away from the position of the
\* current channel
MaxDrift == 180
\* how far beyond either end of 1..N the targets handed to
\* handleChannelChange reach
MaxOvershoot == 2
\* most play() promises that are pending together
MaxPlays == 2

\* ------------------------------------------------------------- constants
\* channels.length
N == 8
\* the volume, in tenths: useState(0.5), Math.min(1, ...), Math.max(0, ...)
InitialVolume == 5
VolumeMax == 10
VolumeMin == 0

VARIABLES
  \* CRTMonitor state
  isPoweredOn, isBooting, isShuttingDown,
  currentChannel, displayChannel, showStatic,
  greenMode, audioInitialized,
  \* pending setTimeout entries of CRTMonitor
  bootTimers, shutdownTimers, staticTimers,
  \* what the last handler did: the sounds it played, the CRTMonitor
  \* callbacks it invoked, and which handler it was
  feedback, calls, lastOp,
  \* TVControls: which of the two power buttons is the visible one, whether a
  \* press that began on it is in progress, the two refs, the pending 3000ms
  \* entries, and for the press in progress whether its own entry has fired
  \* and how often onPowerLongPress was invoked during it
  layout, pressed, powerPressTimer, longPressTriggered, pressTimers,
  pressOwnFired, pressLongCalls,
  \* RotaryDial: the three refs and the rotation state
  isDragging, lastAngle, accumulatedRotation, rotation,
  \* the browser: whether new AudioContext() succeeds in it
  audioSupported,
  \* the data providers: what the promise of the last call of each has
  \* settled with
  pinnedRepos, contributionData,
  \* the music player of CRTMonitor: the volume state in tenths, isPlaying,
  \* whether musicRef holds an Audio element, the volume of that element in
  \* tenths, and the play() promises not settled yet
  volume, isPlaying, musicRef, musicVolume, playPromises

powerVars   == <<isPoweredOn, isBooting, isShuttingDown>>
channelVars == <<currentChannel, displayChannel, showStatic>>
timerVars   == <<bootTimers, shutdownTimers, staticTimers>>
vars == <<isPoweredOn, isBooting, isShuttingDown,
          currentChannel, displayChannel, showStatic,
          greenMode, audioInitialized,
          bootTimers, shutdownTimers, staticTimers,
          feedback, calls, lastOp,
          layout, pressed, powerPressTimer, longPressTriggered, pressTimers,
          pressOwnFired, pressLongCalls,
          isDragging, lastAngle, accumulatedRotation, rotation,
          audioSupported, pinnedRepos, contributionData,
          volume, isPlaying, musicRef, musicVolume, playPromises>>
dataVars  == <<pinnedRepos, contributionData>>
musicVars == <<volume, isPlaying, musicRef, musicVolume, playPromises>>
\* what the page is shown in: the width of the window and the browser
envVars   == <<layout, audioSupported>>
pressVars == <<envVars, pressed, powerPressTimer, longPressTriggered,
               pressTimers, pressOwnFired, pressLongCalls>>
dialVars  == <<isDragging, lastAngle, accumulatedRotation>>

\* 360 / totalChannels
degreesPerChannel == 360 \div N

Max(a, b) == IF a >= b THEN a ELSE b
Min(a, b) == IF a <= b THEN a ELSE b

\* the entries of s whose ref flag is keepRef, in order
RECURSIVE SelectTimers(_, _)
SelectTimers(s, keepRef) ==
  IF s = <<>> THEN <<>>
  ELSE IF Head(s).ref = keepRef
       THEN <<Head(s)>> \o SelectTimers(Tail(s), keepRef)
       ELSE SelectTimers(Tail(s), keepRef)

\* clearTimeout(ref.current): the entry the ref points at is dropped
ClearRef(s) == SelectTimers(s, FALSE)

\* ref.current = setTimeout(...): the new entry is the one the ref points at
RECURSIVE Unref(_)
Unref(s) ==
  IF s = <<>> THEN <<>>
  ELSE <<[Head(s) EXCEPT !.ref = FALSE]>> \o Unref(Tail(s))

\* ------------------------------------------------------------ RotaryDial
\* the effect of RotaryDial that runs after a render in which currentChannel
\* has changed: setRotation((currentChannel - 1) * degreesPerChannel);
\* base: the rotation the handler itself has set
SyncRotation(base) ==
  rotation' = IF currentChannel' # currentChannel
              THEN (currentChannel' - 1) * degreesPerChannel
              ELSE base

\* the pointer angles getAngle returns, in whole degrees: atan2 of the
\* vector from the centre of the dial to the pointer, in (-180, 180]
PointerAngles == {-135, -90, -45, -44, 0, 44, 45, 89, 90, 135, 180}

\* |x|
Abs(x) == IF x < 0 THEN -x ELSE x

\* the wrapping of handlePointerMove at +-180 degrees
WrapDelta(raw) ==
  LET d1 == IF raw > 180 THEN raw - 360 ELSE raw
  IN  IF d1 < -180 THEN d1 + 360 ELSE d1

\* the test with > in place of >=
StepDue_Strict(acc) == Abs(acc) > degreesPerChannel

\* the test of handlePointerMove for a channel boundary being crossed
StepDue(acc) == Abs(acc) >= degreesPerChannel

\* the excess beyond one step carried over to the next move
AfterStep_Carry(acc) ==
  IF acc > 0 THEN acc - degreesPerChannel ELSE acc + degreesPerChannel

\* the accumulated rotation handlePointerMove leaves after a step
AfterStep(acc) == 0

\* the channel handlePointerMove requests for a step in direction
DialTarget(direction) == ((currentChannel - 1 + direction + N) % N) + 1

\* the snap with Math.floor in place of Math.round
SnapRotation_Floor(x) == (x \div degreesPerChannel) * degreesPerChannel

\* Math.round(x / degreesPerChannel) * degreesPerChannel; Math.round rounds
\* to the nearest integer and a half towards plus infinity
SnapRotation(x) ==
  ((2 * x + degreesPerChannel) \div (2 * degreesPerChannel))
    * degreesPerChannel

\* ------------------------------------------------------------ CRTMonitor
\* ensureAudio: the value of audioInitialized after the call
ensureAudio == TRUE

\* ensureAudio throws: while audioInitialized is false it calls initAudio,
\* whose new AudioContext() is inside no try block, and a throw leaves
\* audioInitialized false; the handler that called ensureAudio ends there
AudioThrows == ~audioInitialized /\ ~audioSupported

\* handlePowerToggle
handlePowerToggle ==
  IF AudioThrows
  THEN /\ feedback' = <<>>
       /\ UNCHANGED <<powerVars, channelVars, timerVars, greenMode,
                      audioInitialized>>
  ELSE /\ audioInitialized' = ensureAudio
       /\ IF isPoweredOn
          THEN /\ shutdownTimers < MaxTimers
               /\ feedback' = <<"powerOff">>
               /\ isShuttingDown' = TRUE
               /\ shutdownTimers' = shutdownTimers + 1
               /\ UNCHANGED <<isPoweredOn, isBooting, bootTimers>>
          ELSE /\ bootTimers < MaxTimers
               /\ feedback' = <<"powerOn">>
               /\ isPoweredOn' = TRUE
               /\ isBooting' = TRUE
               /\ bootTimers' = bootTimers + 1
               /\ UNCHANGED <<isShuttingDown, shutdownTimers>>
       /\ UNCHANGED <<channelVars, staticTimers, greenMode>>

\* the callback with a reset of the green mode added to it
ShutdownComplete_ResetsGreen ==
  /\ shutdownTimers > 0
  /\ shutdownTimers' = shutdownTimers - 1
  /\ isPoweredOn' = FALSE
  /\ isShuttingDown' = FALSE
  /\ isBooting' = FALSE
  /\ greenMode' = FALSE
  /\ feedback' = <<>>
  /\ calls' = <<>>
  /\ lastOp' = [op |-> "ShutdownComplete", arg |-> 0]
  /\ UNCHANGED <<channelVars, bootTimers, staticTimers,
                 audioInitialized, pressVars, dialVars, rotation>>
  /\ UNCHANGED dataVars
  /\ UNCHANGED musicVars

\* the callback with the pending display update cancelled by the power-off
ShutdownComplete_CancelsDisplayUpdate ==
  /\ shutdownTimers > 0
  /\ shutdownTimers' = shutdownTimers - 1
  /\ isPoweredOn' = FALSE
  /\ isShuttingDown' = FALSE
  /\ isBooting' = FALSE
  /\ staticTimers' = <<>>
  /\ feedback' = <<>>
  /\ calls' = <<>>
  /\ lastOp' = [op |-> "ShutdownComplete", arg |-> 0]
  /\ UNCHANGED <<channelVars, bootTimers, greenMode,
                 audioInitialized, pressVars, dialVars, rotation>>
  /\ UNCHANGED dataVars
  /\ UNCHANGED musicVars

\* the callback of the 700ms timer of handlePowerToggle
ShutdownComplete ==
  /\ shutdownTimers > 0
  /\ shutdownTimers' = shutdownTimers - 1
  /\ isPoweredOn' = FALSE
  /\ isShuttingDown' = FALSE
  /\ isBooting' = FALSE
  /\ feedback' = <<>>
  /\ calls' = <<>>
  /\ lastOp' = [op |-> "ShutdownComplete", arg |-> 0]
  /\ UNCHANGED <<channelVars, bootTimers, staticTimers, greenMode,
                 audioInitialized, pressVars, dialVars, rotation>>
  /\ UNCHANGED dataVars
  /\ UNCHANGED musicVars

\* the callback with the set coming up on channel 1 after every boot
BootComplete_ResetsChannel ==
  /\ bootTimers > 0
  /\ bootTimers' = bootTimers - 1
  /\ isBooting' = FALSE
  /\ currentChannel' = 1
  /\ displayChannel' = 1
  /\ rotation' = 0
  /\ feedback' = <<>>
  /\ calls' = <<>>
  /\ lastOp' = [op |-> "BootComplete", arg |-> 0]
  /\ UNCHANGED <<isPoweredOn, isShuttingDown, showStatic, shutdownTimers,
                 staticTimers, greenMode, audioInitialized, pressVars,
                 dialVars>>
  /\ UNCHANGED dataVars
  /\ UNCHANGED musicVars

\* the callback of the 2500ms timer of handlePowerToggle
BootComplete ==
  /\ bootTimers > 0
  /\ bootTimers' = bootTimers - 1
  /\ isBooting' = FALSE
  /\ feedback' = <<>>
  /\ calls' = <<>>
  /\ lastOp' = [op |-> "BootComplete", arg |-> 0]
  /\ UNCHANGED <<isPoweredOn, isShuttingDown, channelVars, shutdownTimers,
                 staticTimers, greenMode, audioInitialized, pressVars,
                 dialVars, rotation>>
  /\ UNCHANGED dataVars
  /\ UNCHANGED musicVars

\* the handler with the green mode taken as a look of the powered set only
handlePowerLongPress_OnlyWhenPowered ==
  /\ audioInitialized' = ensureAudio
  /\ greenMode' = IF isPoweredOn THEN ~greenMode ELSE greenMode
  /\ feedback' = <<"channelBeep">>
  /\ UNCHANGED <<powerVars, channelVars, timerVars>>

\* handlePowerLongPress
handlePowerLongPress ==
  IF AudioThrows
  THEN /\ feedback' = <<>>
       /\ UNCHANGED <<powerVars, channelVars, timerVars, greenMode,
                      audioInitialized>>
  ELSE /\ audioInitialized' = ensureAudio
       /\ greenMode' = ~greenMode
       /\ feedback' = <<"channelBeep">>
       /\ UNCHANGED <<powerVars, channelVars, timerVars>>

\* the early return without its isBooting test
Rejected_NoBootingTest(newChannel) ==
  ~isPoweredOn \/ newChannel = currentChannel

\* the early return of handleChannelChange
Rejected(newChannel) ==
  ~isPoweredOn \/ isBooting \/ newChannel = currentChannel

\* a new entry scheduled without the clearTimeout of the pending one
Rescheduled_NoClear(timers, ch) ==
  Unref(timers) \o <<[ch |-> ch, ref |-> TRUE]>>

\* the pending 300ms entries after handleChannelChange has cleared the one
\* staticTimeoutRef points at and scheduled a new one for ch
Rescheduled(timers, ch) ==
  Unref(ClearRef(timers)) \o <<[ch |-> ch, ref |-> TRUE]>>

\* the target taken as it is
Clamped_None(newChannel) == newChannel

\* Math.max(1, Math.min(newChannel, channels.length))
Clamped(newChannel) == Max(1, Min(newChannel, N))

\* handleChannelChange(newChannel) ends in the throw of ensureAudio, which
\* it calls after its early return
ChannelChangeThrows(newChannel) == ~Rejected(newChannel) /\ AudioThrows

\* handleChannelChange(newChannel); after: the sounds the caller plays once
\* the call has returned
handleChannelChange(newChannel, after) ==
  IF Rejected(newChannel)
  THEN /\ feedback' = after
       /\ UNCHANGED <<channelVars, staticTimers, audioInitialized>>
  ELSE IF AudioThrows
  THEN /\ feedback' = <<>>
       /\ UNCHANGED <<channelVars, staticTimers, audioInitialized>>
  ELSE LET ch == Clamped(newChannel) IN
       /\ audioInitialized' = ensureAudio
       /\ feedback' = <<"channelBeep", "staticNoise">> \o after
       /\ showStatic' = TRUE
       /\ currentChannel' = ch
       /\ staticTimers' = Rescheduled(staticTimers, ch)
       /\ UNCHANGED displayChannel

\* the callback without its setShowStatic(false)
StaticTimeout_KeepsStatic ==
  /\ staticTimers # <<>>
  /\ staticTimers' = Tail(staticTimers)
  /\ displayChannel' = Head(staticTimers).ch
  /\ feedback' = <<>>
  /\ calls' = <<>>
  /\ lastOp' = [op |-> "StaticTimeout", arg |-> Head(staticTimers).ch]
  /\ UNCHANGED <<powerVars, currentChannel, showStatic, bootTimers,
                 shutdownTimers, greenMode, audioInitialized, pressVars,
                 dialVars, rotation>>
  /\ UNCHANGED dataVars
  /\ UNCHANGED musicVars

\* the callback without its setDisplayChannel(ch)
StaticTimeout_NoDisplayWrite ==
  /\ staticTimers # <<>>
  /\ staticTimers' = Tail(staticTimers)
  /\ showStatic' = FALSE
  /\ feedback' = <<>>
  /\ calls' = <<>>
  /\ lastOp' = [op |-> "StaticTimeout", arg |-> Head(staticTimers).ch]
  /\ UNCHANGED <<powerVars, currentChannel, displayChannel, bootTimers,
                 shutdownTimers, greenMode, audioInitialized, pressVars,
                 dialVars, rotation>>
  /\ UNCHANGED dataVars
  /\ UNCHANGED musicVars

\* the callback of the 300ms timer of handleChannelChange
StaticTimeout ==
  /\ staticTimers # <<>>
  /\ staticTimers' = Tail(staticTimers)
  /\ showStatic' = FALSE
  /\ displayChannel' = Head(staticTimers).ch
  /\ feedback' = <<>>
  /\ calls' = <<>>
  /\ lastOp' = [op |-> "StaticTimeout", arg |-> Head(staticTimers).ch]
  /\ UNCHANGED <<powerVars, currentChannel, bootTimers, shutdownTimers,
                 greenMode, audioInitialized, pressVars, dialVars, rotation>>
  /\ UNCHANGED dataVars
  /\ UNCHANGED musicVars

\* --------------------------------------------------------------- intents
\* onPowerToggle()
PowerToggle ==
  /\ handlePowerToggle
  /\ calls' = <<<<"onPowerToggle", 0>>>>
  /\ lastOp' = [op |-> "PowerToggle", arg |-> 0]
  /\ UNCHANGED <<pressVars, dialVars, rotation>>
  /\ UNCHANGED dataVars
  /\ UNCHANGED musicVars

\* onPowerLongPress()
PowerLongPress ==
  /\ handlePowerLongPress
  /\ calls' = <<<<"onPowerLongPress", 0>>>>
  /\ lastOp' = [op |-> "PowerLongPress", arg |-> 0]
  /\ UNCHANGED <<pressVars, dialVars, rotation>>
  /\ UNCHANGED dataVars
  /\ UNCHANGED musicVars

\* the numbers a caller may hand to onChannelChange: (channel: number) => void
ChannelTargets == (1 - MaxOvershoot)..(N + MaxOvershoot)

\* onChannelChange(target)
RequestChannelChange(target) ==
  /\ handleChannelChange(target, <<>>)
  /\ calls' = <<<<"onChannelChange", target>>>>
  /\ lastOp' = [op |-> "RequestChannelChange", arg |-> target]
  /\ SyncRotation(rotation)
  /\ UNCHANGED <<powerVars, bootTimers, shutdownTimers, greenMode,
                 pressVars, dialVars>>
  /\ UNCHANGED dataVars
  /\ UNCHANGED musicVars

\* parseInt(e.key) for the keys of the switch of handleKeyDown
parseInt(key) ==
  CASE key = "1" -> 1 [] key = "2" -> 2 [] key = "3" -> 3 [] key = "4" -> 4
    [] key = "5" -> 5 [] key = "6" -> 6 [] key = "7" -> 7 [] key = "8" -> 8
    [] key = "9" -> 9 [] OTHER -> 0

\* the keys a keydown event is drawn from
Keys == {"ArrowUp", "ArrowRight", "ArrowDown", "ArrowLeft",
         "0", "1", "2", "3", "4", "5", "6", "7", "8", "9", "Enter"}

\* the switch with a case for '9' added to it
DigitCases_WithNine == {"1", "2", "3", "4", "5", "6", "7", "8", "9"}

\* the keys the switch of handleKeyDown has a case for
DigitCases == {"1", "2", "3", "4", "5", "6", "7", "8"}

\* the target handleKeyDown computes for key; 0: the key requests nothing
KeyTarget(key) ==
  IF ~isPoweredOn \/ isBooting THEN 0
  ELSE IF key \in {"ArrowUp", "ArrowRight"}
       THEN (IF currentChannel >= N THEN 1 ELSE currentChannel + 1)
  ELSE IF key \in {"ArrowDown", "ArrowLeft"}
       THEN (IF currentChannel <= 1 THEN N ELSE currentChannel - 1)
  ELSE IF key \in DigitCases THEN parseInt(key)
  ELSE 0

\* handleKeyDown (the keydown listener of the window)
KeyDown(key) ==
  /\ IF KeyTarget(key) = 0
     THEN /\ feedback' = <<>>
          /\ calls' = <<>>
          /\ UNCHANGED <<channelVars, staticTimers, audioInitialized>>
     ELSE /\ handleChannelChange(KeyTarget(key), <<>>)
          /\ calls' = <<<<"onChannelChange", KeyTarget(key)>>>>
  /\ lastOp' = [op |-> "KeyDown", arg |-> key]
  /\ SyncRotation(rotation)
  /\ UNCHANGED <<powerVars, bootTimers, shutdownTimers, greenMode,
                 pressVars, dialVars>>
  /\ UNCHANGED dataVars
  /\ UNCHANGED musicVars

\* ------------------------------------------------------------ TVControls
\* the desktop side panel (md and wider) or the mobile remote (narrower)
Layouts == {"desktop", "mobile"}

\* the next channel without the wrap from the last channel to the first
ChannelUpTarget_NoWrap == currentChannel + 1

\* the target handleChannelUp computes
ChannelUpTarget == IF currentChannel >= N THEN 1 ELSE currentChannel + 1

\* the target handleChannelDown computes
ChannelDownTarget == IF currentChannel <= 1 THEN N ELSE currentChannel - 1

\* handleChannelUp (click on the channel-up button)
ChannelUp ==
  /\ handleChannelChange(ChannelUpTarget, <<>>)
  /\ calls' = <<<<"onChannelChange", ChannelUpTarget>>>>
  /\ lastOp' = [op |-> "ChannelUp", arg |-> 0]
  /\ SyncRotation(rotation)
  /\ UNCHANGED <<powerVars, bootTimers, shutdownTimers, greenMode,
                 pressVars, dialVars>>
  /\ UNCHANGED dataVars
  /\ UNCHANGED musicVars

\* handleChannelDown (click on the channel-down button)
ChannelDown ==
  /\ handleChannelChange(ChannelDownTarget, <<>>)
  /\ calls' = <<<<"onChannelChange", ChannelDownTarget>>>>
  /\ lastOp' = [op |-> "ChannelDown", arg |-> 0]
  /\ SyncRotation(rotation)
  /\ UNCHANGED <<powerVars, bootTimers, shutdownTimers, greenMode,
                 pressVars, dialVars>>
  /\ UNCHANGED dataVars
  /\ UNCHANGED musicVars

\* click on quick-select button ch of the mobile remote
QuickSelect(ch) ==
  /\ layout = "mobile"
  /\ handleChannelChange(ch, <<>>)
  /\ calls' = <<<<"onChannelChange", ch>>>>
  /\ lastOp' = [op |-> "QuickSelect", arg |-> ch]
  /\ SyncRotation(rotation)
  /\ UNCHANGED <<powerVars, bootTimers, shutdownTimers, greenMode,
                 pressVars, dialVars>>
  /\ UNCHANGED dataVars
  /\ UNCHANGED musicVars

\* the pending 3000ms entries once a press has ended or a new one begins:
\* none of them belongs to the press in progress any more
RECURSIVE Disown(_)
Disown(s) ==
  IF s = <<>> THEN <<>>
  ELSE <<[Head(s) EXCEPT !.own = FALSE]>> \o Disown(Tail(s))

\* handlePowerDown (pointerdown on the power button)
PowerDown ==
  /\ ~pressed
  /\ Len(pressTimers) < MaxTimers
  /\ pressed' = TRUE
  /\ longPressTriggered' = FALSE
  /\ powerPressTimer' = TRUE
  /\ pressTimers' =
       Disown(Unref(pressTimers)) \o <<[ref |-> TRUE, own |-> TRUE]>>
  /\ pressOwnFired' = FALSE
  /\ pressLongCalls' = 0
  /\ feedback' = <<>>
  /\ calls' = <<>>
  /\ lastOp' = [op |-> "PowerDown", arg |-> 0]
  /\ UNCHANGED <<powerVars, channelVars, timerVars, greenMode,
                 audioInitialized, envVars, dialVars, rotation>>
  /\ UNCHANGED dataVars
  /\ UNCHANGED musicVars

\* the callback of the 3000ms timer of handlePowerDown
LongPressTimer ==
  /\ pressTimers # <<>>
  /\ pressTimers' = Tail(pressTimers)
  /\ longPressTriggered' = TRUE
  /\ handlePowerLongPress
  /\ calls' = <<<<"onPowerLongPress", 0>>>>
  /\ pressOwnFired' = (pressOwnFired \/ Head(pressTimers).own)
  /\ pressLongCalls' = IF pressed THEN pressLongCalls + 1 ELSE pressLongCalls
  /\ lastOp' = [op |-> "LongPressTimer", arg |-> 0]
  /\ UNCHANGED <<envVars, pressed, powerPressTimer, dialVars, rotation>>
  /\ UNCHANGED dataVars
  /\ UNCHANGED musicVars

\* handlePowerUp (pointerup on the power button)
PowerUp ==
  /\ pressed
  /\ pressed' = FALSE
  /\ powerPressTimer' = FALSE
  /\ pressTimers' =
       Disown(IF powerPressTimer THEN ClearRef(pressTimers) ELSE pressTimers)
  /\ IF ~longPressTriggered
     THEN /\ handlePowerToggle
          /\ calls' = <<<<"onPowerToggle", 0>>>>
     ELSE /\ feedback' = <<>>
          /\ calls' = <<>>
          /\ UNCHANGED <<powerVars, channelVars, timerVars, greenMode,
                         audioInitialized>>
  /\ lastOp' = [op |-> "PowerUp", arg |-> 0]
  /\ UNCHANGED <<envVars, longPressTriggered, pressOwnFired, pressLongCalls,
                 dialVars, rotation>>
  /\ UNCHANGED dataVars
  /\ UNCHANGED musicVars

\* the pointer leaves the power button during a press (it moves off the
\* button, or the press is cancelled): the desktop button has an
\* onPointerLeave handler, the button of the mobile remote has none, and the
\* pointerup that ends the press is delivered to neither
PowerLeave ==
  /\ pressed
  /\ pressed' = FALSE
  /\ pressTimers' =
       Disown(IF layout = "desktop" /\ powerPressTimer
              THEN ClearRef(pressTimers) ELSE pressTimers)
  /\ feedback' = <<>>
  /\ calls' = <<>>
  /\ lastOp' = [op |-> "PowerLeave", arg |-> 0]
  /\ UNCHANGED <<powerVars, channelVars, timerVars, greenMode,
                 audioInitialized, envVars, powerPressTimer,
                 longPressTriggered, pressOwnFired, pressLongCalls,
                 dialVars, rotation>>
  /\ UNCHANGED dataVars
  /\ UNCHANGED musicVars

\* ------------------------------------------------- RotaryDial handlers
\* handlePointerDown (pointerdown on the knob, pointer at angle)
DialPointerDown(angle) ==
  /\ layout = "desktop"
  /\ ~isDragging
  /\ isDragging' = TRUE
  /\ lastAngle' = angle
  /\ accumulatedRotation' = 0
  /\ feedback' = <<>>
  /\ calls' = <<>>
  /\ lastOp' = [op |-> "DialPointerDown", arg |-> 0]
  /\ UNCHANGED <<powerVars, channelVars, timerVars, greenMode,
                 audioInitialized, pressVars, rotation>>
  /\ UNCHANGED dataVars
  /\ UNCHANGED musicVars

\* handlePointerMove (pointermove on the knob, pointer at angle)
DialPointerMove(angle) ==
  /\ layout = "desktop"
  /\ lastOp' = [op |-> "DialPointerMove",
                arg |-> IF isDragging THEN WrapDelta(angle - lastAngle)
                        ELSE 0]
  /\ UNCHANGED <<powerVars, bootTimers, shutdownTimers, greenMode,
                 pressVars, isDragging>>
  /\ UNCHANGED dataVars
  /\ UNCHANGED musicVars
  /\ IF ~isDragging
     THEN /\ feedback' = <<>>
          /\ calls' = <<>>
          /\ UNCHANGED <<channelVars, staticTimers, audioInitialized,
                         lastAngle, accumulatedRotation, rotation>>
     ELSE LET delta == WrapDelta(angle - lastAngle)
              acc   == accumulatedRotation + delta
              direction == IF acc > 0 THEN 1 ELSE -1
          IN  /\ Abs(rotation + delta - (currentChannel - 1) * degreesPerChannel)
                   <= MaxDrift
              /\ lastAngle' = angle
              /\ IF StepDue(acc)
                 THEN /\ handleChannelChange(DialTarget(direction),
                                             <<"dialClick">>)
                      /\ calls' = <<<<"onChannelChange",
                                      DialTarget(direction)>>>>
                      /\ accumulatedRotation' =
                           IF ChannelChangeThrows(DialTarget(direction))
                           THEN acc ELSE AfterStep(acc)
                 ELSE /\ accumulatedRotation' = acc
                      /\ feedback' = <<>>
                      /\ calls' = <<>>
                      /\ UNCHANGED <<channelVars, staticTimers,
                                     audioInitialized>>
              /\ SyncRotation(rotation + delta)

\* handlePointerUp (pointerup on the knob)
DialPointerUp ==
  /\ layout = "desktop"
  /\ isDragging' = FALSE
  /\ rotation' = SnapRotation(rotation)
  /\ feedback' = <<>>
  /\ calls' = <<>>
  /\ lastOp' = [op |-> "DialPointerUp", arg |-> 0]
  /\ UNCHANGED <<powerVars, channelVars, timerVars, greenMode,
                 audioInitialized, pressVars, lastAngle,
                 accumulatedRotation>>
  /\ UNCHANGED dataVars
  /\ UNCHANGED musicVars

\* ---------------------------------------------------------- music player
\* the music player after the first render; the volume of an Audio element
\* is 1 until it is assigned
InitMusic ==
  /\ volume = InitialVolume
  /\ isPlaying = FALSE
  /\ musicRef = FALSE
  /\ musicVolume = VolumeMax
  /\ playPromises = 0

\* what a music handler leaves alone
MusicFrame ==
  /\ feedback' = <<>>
  /\ calls' = <<>>
  /\ UNCHANGED <<powerVars, channelVars, timerVars, greenMode,
                 audioInitialized, pressVars, dialVars, rotation>>
  /\ UNCHANGED dataVars

\* the updater without its Math.min
VolumeUpTarget_NoCap(prev) == prev + 1

\* Math.min(1, prev + 0.1)
VolumeUpTarget(prev) == Min(VolumeMax, prev + 1)

\* Math.max(0, prev - 0.1)
VolumeDownTarget(prev) == Max(VolumeMin, prev - 1)

\* handleVolumeUp
VolumeUp ==
  /\ volume' = VolumeUpTarget(volume)
  /\ musicVolume' = IF musicRef THEN VolumeUpTarget(volume) ELSE musicVolume
  /\ lastOp' = [op |-> "VolumeUp", arg |-> volume]
  /\ UNCHANGED <<isPlaying, musicRef, playPromises>>
  /\ MusicFrame

\* handleVolumeDown
VolumeDown ==
  /\ volume' = VolumeDownTarget(volume)
  /\ musicVolume' = IF musicRef THEN VolumeDownTarget(volume) ELSE musicVolume
  /\ lastOp' = [op |-> "VolumeDown", arg |-> volume]
  /\ UNCHANGED <<isPlaying, musicRef, playPromises>>
  /\ MusicFrame

\* handleMusicToggle
MusicToggle ==
  /\ musicRef' = TRUE
  /\ musicVolume' = IF musicRef THEN musicVolume ELSE volume
  /\ IF isPlaying
     THEN /\ isPlaying' = FALSE
          /\ UNCHANGED playPromises
     ELSE /\ playPromises < MaxPlays
          /\ playPromises' = playPromises + 1
          /\ UNCHANGED isPlaying
  /\ lastOp' = [op |-> "MusicToggle", arg |-> 0]
  /\ UNCHANGED volume
  /\ MusicFrame

\* the promise of play() is fulfilled: setIsPlaying(true)
PlayResolved ==
  /\ playPromises > 0
  /\ playPromises' = playPromises - 1
  /\ isPlaying' = TRUE
  /\ lastOp' = [op |-> "PlayResolved", arg |-> 0]
  /\ UNCHANGED <<volume, musicRef, musicVolume>>
  /\ MusicFrame

\* the promise of play() is rejected: the empty catch
PlayRejected ==
  /\ playPromises > 0
  /\ playPromises' = playPromises - 1
  /\ lastOp' = [op |-> "PlayRejected", arg |-> 0]
  /\ UNCHANGED <<volume, isPlaying, musicRef, musicVolume>>
  /\ MusicFrame

\* ------------------------------------------------------- data providers
\* the weeks and the days of a week of the fallback calendar
WeeksInCalendar == 53
DaysInWeek == 7

\* a promise not settled yet, resolved with value, rejected
Pending(value)  == [settled |-> "pending", value |-> value]
Resolved(value) == [settled |-> "resolved", value |-> value]
RejectedWith(value) == [settled |-> "rejected", value |-> value]

\* what a request comes to: fetch rejects (network error), the response is
\* not OK, response.json() rejects (the body does not parse), the body
\* parses to null, or it parses to an object
ResponseKinds == {"fetchRejects", "notOk", "jsonRejects", "null", "object"}

\* the lists of pinned repositories the route answers with
RepoLists == {<<>>, <<"repoA">>, <<"repoA", "repoB">>}

\* the responses of /api/pinned-repos; has: the object has a repos member
PinnedResponses ==
  [kind : ResponseKinds \ {"object"}, has : {FALSE}, repos : {<<>>}]
    \cup {r \in [kind : {"object"}, has : BOOLEAN, repos : RepoLists] :
            ~r.has => r.repos = <<>>}

\* the try block of a provider ends in a throw: the awaited fetch rejects,
\* the function throws on a response that is not OK, the awaited json()
\* rejects, or a member of null is read
Throws(response) ==
  response.kind \in {"fetchRejects", "notOk", "jsonRejects", "null"}

\* fetchPinnedRepos without its catch block
fetchPinnedRepos_NoCatch(response) ==
  IF Throws(response) THEN RejectedWith(<<>>)
  ELSE Resolved(IF response.has THEN response.repos ELSE <<>>)

\* fetchPinnedRepos: what the promise settles with
fetchPinnedRepos(response) ==
  IF Throws(response) THEN Resolved(<<>>)
  ELSE Resolved(IF response.has THEN response.repos ELSE <<>>)

\* the weeks the route answers with: one week of one active day
WeekLists == {<<<<[day |-> 0, count |-> 3, level |-> 2]>>>>}

\* the responses of /api/contributions; hasWeeks, hasTotal: the object has a
\* weeks member, a totalContributions member
ContributionResponses ==
  [kind : ResponseKinds \ {"object"}, hasWeeks : {FALSE}, weeks : {<<>>},
   hasTotal : {FALSE}, totalContributions : {0}]
    \cup {r \in [kind : {"object"}, hasWeeks : BOOLEAN,
                 weeks : WeekLists \cup {<<>>},
                 hasTotal : BOOLEAN, totalContributions : {0, 3}] :
            /\ r.hasWeeks <=> r.weeks # <<>>
            /\ r.hasTotal <=> r.totalContributions # 0}

\* generateEmptyCalendar; day: the days from the Sunday the grid starts on
generateEmptyCalendar ==
  [w \in 1..WeeksInCalendar |->
     [d \in 1..DaysInWeek |->
        [day |-> (w - 1) * DaysInWeek + (d - 1), count |-> 0, level |-> 0]]]

\* fetchContributionData: what the promise settles with
fetchContributionData(response) ==
  IF Throws(response)
  THEN Resolved([weeks |-> generateEmptyCalendar, totalContributions |-> 0])
  ELSE Resolved([weeks |-> IF response.hasWeeks THEN response.weeks
                           ELSE <<>>,
                 totalContributions |->
                   IF response.hasTotal THEN response.totalContributions
                   ELSE 0])

\* a panel calls fetchPinnedRepos() and the request comes to response
FetchPinnedRepos(response) ==
  /\ pinnedRepos' = fetchPinnedRepos(response)
  /\ feedback' = <<>>
  /\ calls' = <<>>
  /\ lastOp' = [op |-> "fetchPinnedRepos", arg |-> response]
  /\ UNCHANGED <<powerVars, channelVars, timerVars, greenMode,
                 audioInitialized, pressVars, dialVars, rotation,
                 contributionData>>
  /\ UNCHANGED musicVars

\* a panel calls fetchContributionData() and the request comes to response
FetchContributionData(response) ==
  /\ contributionData' = fetchContributionData(response)
  /\ feedback' = <<>>
  /\ calls' = <<>>
  /\ lastOp' = [op |-> "fetchContributionData", arg |-> response]
  /\ UNCHANGED <<powerVars, channelVars, timerVars, greenMode,
                 audioInitialized, pressVars, dialVars, rotation,
                 pinnedRepos>>
  /\ UNCHANGED musicVars

\* the state of the components after the first render
InitMachine ==
  /\ isPoweredOn = FALSE
  /\ isBooting = FALSE
  /\ isShuttingDown = FALSE
  /\ currentChannel = 1
  /\ displayChannel = 1
  /\ showStatic = FALSE
  /\ greenMode = FALSE
  /\ audioInitialized = FALSE
  /\ bootTimers = 0
  /\ shutdownTimers = 0
  /\ staticTimers = <<>>
  /\ feedback = <<>>
  /\ calls = <<>>
  /\ lastOp = [op |-> "init", arg |-> 0]
  /\ layout \in Layouts
  /\ pressed = FALSE
  /\ powerPressTimer = FALSE
  /\ longPressTriggered = FALSE
  /\ pressTimers = <<>>
  /\ pressOwnFired = FALSE
  /\ pressLongCalls = 0
  /\ isDragging = FALSE
  /\ lastAngle = 0
  /\ accumulatedRotation = 0
  /\ rotation = (1 - 1) * degreesPerChannel
  /\ pinnedRepos = Pending(<<>>)
  /\ contributionData = Pending([weeks |-> <<>>, totalContributions |-> 0])
  /\ InitMusic

\* the page in a browser with the Web Audio API
Init ==
  /\ InitMachine
  /\ audioSupported = TRUE

\* the page in a browser with or without the Web Audio API
InitAudio ==
  /\ InitMachine
  /\ audioSupported \in BOOLEAN

Next ==
  \/ PowerToggle
  \/ PowerLongPress
  \/ BootComplete
  \/ ShutdownComplete
  \/ StaticTimeout
  \/ \E key \in Keys : KeyDown(key)
  \/ ChannelUp
  \/ ChannelDown
  \/ \E ch \in 1..N : QuickSelect(ch)

\* the power/channel state machine under the intents of its props
Spec == Init /\ [][Next]_vars

\* the power button of TVControls driving the state machine
NextPress ==
  \/ PowerDown
  \/ PowerUp
  \/ PowerLeave
  \/ LongPressTimer
  \/ BootComplete
  \/ ShutdownComplete

SpecPress == Init /\ [][NextPress]_vars

\* the state machine under every call of its three handler props, the
\* channel handler with any number in reach
NextApi ==
  \/ PowerToggle
  \/ PowerLongPress
  \/ \E target \in ChannelTargets : RequestChannelChange(target)
  \/ BootComplete
  \/ ShutdownComplete
  \/ StaticTimeout

SpecApi == Init /\ [][NextApi]_vars

\* the same in a browser with or without the Web Audio API
SpecAudio == InitAudio /\ [][NextApi]_vars


\* the rotary dial of the desktop panel driving the state machine.  The
\* machine is taken in each of the four power states it passes through, with
\* the timer that ends the state pending, on every channel.
InitDial ==
  /\ \E p \in {"Off", "Booting", "On", "ShuttingDown"} :
       /\ isPoweredOn = (p # "Off")
       /\ isBooting = (p = "Booting")
       /\ isShuttingDown = (p = "ShuttingDown")
       /\ bootTimers = IF p = "Booting" THEN 1 ELSE 0
       /\ shutdownTimers = IF p = "ShuttingDown" THEN 1 ELSE 0
  /\ currentChannel \in 1..N
  /\ displayChannel = currentChannel
  /\ showStatic = FALSE
  /\ greenMode = FALSE
  /\ audioInitialized = TRUE
  /\ staticTimers = <<>>
  /\ feedback = <<>>
  /\ calls = <<>>
  /\ lastOp = [op |-> "init", arg |-> 0]
  /\ layout = "desktop"
  /\ pressed = FALSE
  /\ powerPressTimer = FALSE
  /\ longPressTriggered = FALSE
  /\ pressTimers = <<>>
  /\ pressOwnFired = FALSE
  /\ pressLongCalls = 0
  /\ isDragging = FALSE
  /\ lastAngle = 0
  /\ accumulatedRotation = 0
  /\ rotation = (currentChannel - 1) * degreesPerChannel
  /\ audioSupported = TRUE
  /\ pinnedRepos = Pending(<<>>)
  /\ contributionData = Pending([weeks |-> <<>>, totalContributions |-> 0])
  /\ InitMusic

NextDial ==
  \/ \E angle \in PointerAngles : DialPointerDown(angle)
  \/ \E angle \in PointerAngles : DialPointerMove(angle)
  \/ DialPointerUp
  \/ StaticTimeout
  \/ ChannelUp

SpecDial == InitDial /\ [][NextDial]_vars

\* the data providers at work beside the state machine, which is followed
\* from each of its four power states on every channel
NextData ==
  \/ \E response \in PinnedResponses : FetchPinnedRepos(response)
  \/ \E response \in ContributionResponses : FetchContributionData(response)
  \/ BootComplete
  \/ ShutdownComplete
  \/ ChannelUp
  \/ StaticTimeout

SpecData == InitDial /\ [][NextData]_vars

\* the music player at work beside the state machine, which is followed
\* from each of its four power states on every channel
NextMusic ==
  \/ VolumeUp
  \/ VolumeDown
  \/ MusicToggle
  \/ PlayResolved
  \/ PlayRejected
  \/ PowerLongPress
  \/ BootComplete
  \/ ShutdownComplete

SpecMusic == InitDial /\ [][NextMusic]_vars
\* ================================================================ claims
\* the target of the onChannelChange call the last handler made; 0: none
RequestedTarget(c) ==
  IF c # <<>> /\ c[1][1] = "onChannelChange" THEN c[1][2] ELSE 0

\* the last handler made a request that handleChannelChange accepted
Accepted(c, f) ==
  /\ RequestedTarget(c) # 0
  /\ Len(f) >= 2
  /\ f[1] = "channelBeep"
  /\ f[2] = "staticNoise"

\* the four power states of the specification, as the flags render them
IsOff          == ~isPoweredOn /\ ~isBooting /\ ~isShuttingDown
IsBooting      == isPoweredOn /\ isBooting /\ ~isShuttingDown
IsOn           == isPoweredOn /\ ~isBooting /\ ~isShuttingDown
IsShuttingDown == isPoweredOn /\ ~isBooting /\ isShuttingDown

\* C1: a PowerToggle issued while Booting or ShuttingDown is a no-op: the
\* power flags stay as they are, no power-on or power-off sound is played
\* and no further boot-complete or shutdown-complete timer is scheduled.
C1_PowerToggleIgnoredWhileBusy ==
  [][(lastOp'.op = "PowerToggle" /\ (IsBooting \/ IsShuttingDown))
       => /\ UNCHANGED <<powerVars, bootTimers, shutdownTimers>>
          /\ feedback' = <<>>]_vars

\* C2: a channel change requested for any target in 1..N while the power
\* state is Off or Booting leaves currentChannel, displayChannel and
\* showStatic as they are and schedules no display update, whichever
\* handler issues the request.
C2_NoChannelChangeWhileOffOrBooting ==
  [][(RequestedTarget(calls') \in 1..N /\ (~isPoweredOn \/ isBooting))
       => UNCHANGED <<channelVars, staticTimers>>]_vars

\* C2 witness: the channel-up button was clicked during a boot, on a channel
\* chosen in an earlier power cycle, and a request was issued.
C2_Witness ==
  /\ lastOp.op = "ChannelUp"
  /\ RequestedTarget(calls) = 4
  /\ IsBooting
  /\ currentChannel = 3

\* C3: a channel change requested while the power state is ShuttingDown is
\* rejected: currentChannel, displayChannel and showStatic stay as they
\* are, nothing is played and no display-update timer is scheduled.
C3_ChannelChangeRejectedWhileShuttingDown ==
  [][(RequestedTarget(calls') \in 1..N /\ IsShuttingDown)
       => /\ UNCHANGED <<channelVars, staticTimers>>
          /\ feedback' = <<>>]_vars

\* C4: coalesce-to-latest.  An accepted request sets currentChannel to its
\* target and leaves displayChannel alone; displayChannel is written only
\* when the display-update timer of the latest accepted request fires, no
\* other timer being left, and it then becomes that request's target.
C4_CoalesceToLatest ==
  [][/\ Accepted(calls', feedback')
        => /\ currentChannel' = RequestedTarget(calls')
           /\ displayChannel' = displayChannel
     /\ displayChannel' # displayChannel
        => /\ lastOp'.op = "StaticTimeout"
           /\ staticTimers' = <<>>
           /\ displayChannel' = currentChannel
     /\ lastOp'.op = "StaticTimeout"
        => displayChannel' = currentChannel]_vars

\* C4 witness: two accepted steps up from channel 1 without the timer
\* firing in between (displayChannel is still 1 and one timer is pending).
C4_Witness ==
  /\ lastOp.op = "ChannelUp"
  /\ Accepted(calls, feedback)
  /\ currentChannel = 3
  /\ displayChannel = 1
  /\ Len(staticTimers) = 1

\* C5: the power-on scenario.  PowerToggle in Off gives Booting; the boot
\* timer firing in Booting gives On, both with the channels untouched (1 and
\* 1 from the initial state); a request accepted in On for a target other
\* than currentChannel sets currentChannel to it and showStatic at once
\* while displayChannel keeps its value; the overlay timer firing sets
\* displayChannel to that target and clears showStatic.
C5_PowerOnScenario ==
  [][/\ (lastOp'.op = "PowerToggle" /\ IsOff)
        => (IsBooting' /\ UNCHANGED channelVars)
     /\ (lastOp'.op = "BootComplete" /\ IsBooting)
        => (IsOn' /\ UNCHANGED channelVars)
     /\ (IsOn /\ RequestedTarget(calls') \in (1..N) \ {currentChannel})
        => /\ currentChannel' = RequestedTarget(calls')
           /\ showStatic'
           /\ displayChannel' = displayChannel
     /\ lastOp'.op = "StaticTimeout"
        => /\ displayChannel' = currentChannel
           /\ ~showStatic']_vars

\* C5 witness: the end of the scenario, channel 5 displayed in On.
C5_Witness ==
  /\ lastOp.op = "StaticTimeout"
  /\ IsOn
  /\ currentChannel = 5
  /\ displayChannel = 5
  /\ ~showStatic
\* C6: one press of the power button, from pointerdown to pointerup on the
\* button.  If the 3000ms timer of the press fired before the release, the
\* release invokes no PowerToggle; otherwise the release invokes PowerToggle
\* exactly once and PowerLongPress was not invoked during the press.
C6_ReleaseTogglesUnlessLongPressed ==
  [][lastOp'.op = "PowerUp"
       => IF pressOwnFired
          THEN calls' = <<>>
          ELSE /\ calls' = <<<<"onPowerToggle", 0>>>>
               /\ pressLongCalls = 0]_vars

\* C7: greenMode is changed by PowerLongPress alone, so PowerToggle, the two
\* power timers and the channel changes of a full power cycle leave it as it
\* was.
C7_GreenModeOnlyByLongPress ==
  [][greenMode' # greenMode
       => calls' = <<<<"onPowerLongPress", 0>>>>]_vars

\* C7 witness: a power cycle has just ended in Off with the green mode on.
C7_Witness ==
  /\ lastOp.op = "ShutdownComplete"
  /\ IsOff
  /\ greenMode
  /\ bootTimers = 0
  /\ shutdownTimers = 0

\* the step of the specification: ((c - 1 + d + N) % N) + 1
StepChannel(c, d) == ((c - 1 + d + N) % N) + 1

\* C8: channel stepping wraps.  The target the arrow keys, the channel
\* buttons and the dial compute from channel c in direction d is
\* ((c - 1 + d + N) % N) + 1: 1 for +1 from N, N for -1 from 1.
C8_SteppingWraps ==
  [][/\ lastOp'.op = "ChannelUp"
        => /\ RequestedTarget(calls') = StepChannel(currentChannel, 1)
           /\ currentChannel = N => RequestedTarget(calls') = 1
     /\ lastOp'.op = "ChannelDown"
        => /\ RequestedTarget(calls') = StepChannel(currentChannel, -1)
           /\ currentChannel = 1 => RequestedTarget(calls') = N
     /\ (lastOp'.op = "KeyDown" /\ isPoweredOn /\ ~isBooting)
        => /\ lastOp'.arg \in {"ArrowUp", "ArrowRight"}
              => RequestedTarget(calls') = StepChannel(currentChannel, 1)
           /\ lastOp'.arg \in {"ArrowDown", "ArrowLeft"}
              => RequestedTarget(calls') = StepChannel(currentChannel, -1)
     /\ \A d \in {1, -1} : DialTarget(d) = StepChannel(currentChannel, d)
    ]_vars

\* C8 witness: the channel-up button was clicked on channel N and the change
\* to channel 1 was accepted.
C8_Witness ==
  /\ lastOp.op = "ChannelUp"
  /\ Accepted(calls, feedback)
  /\ RequestedTarget(calls) = 1
  /\ currentChannel = 1
  /\ displayChannel = N

\* the number of dial clicks among the sounds f
RECURSIVE DialClicks(_)
DialClicks(f) ==
  IF f = <<>> THEN 0
  ELSE (IF Head(f) = "dialClick" THEN 1 ELSE 0) + DialClicks(Tail(f))

\* C9: the threshold of the gesture mapper.  A move of a drag that brings
\* the absolute accumulated delta to 360/N degrees or more emits exactly one
\* step in the direction of the sign of the accumulated delta, plays one
\* dial click and resets the accumulated delta to 0; a move that leaves it
\* below the threshold emits no step and plays nothing.
C9_StepAtThreshold ==
  [][(lastOp'.op = "DialPointerMove" /\ isDragging)
       => LET acc == accumulatedRotation + lastOp'.arg IN
          IF Abs(acc) >= 360 \div N
          THEN /\ calls' = <<<<"onChannelChange",
                   StepChannel(currentChannel, IF acc > 0 THEN 1 ELSE -1)>>>>
               /\ DialClicks(feedback') = 1
               /\ accumulatedRotation' = 0
          ELSE /\ calls' = <<>>
               /\ feedback' = <<>>
               /\ accumulatedRotation' = acc]_vars

\* C9 witness: a move of 1 degree completed an accumulated delta of exactly
\* 45 degrees (44 were accumulated before it) and the step up was emitted.
C9_Witness ==
  /\ lastOp = [op |-> "DialPointerMove", arg |-> 1]
  /\ lastAngle = 45
  /\ Len(calls) = 1
  /\ DialClicks(feedback) = 1
  /\ accumulatedRotation = 0
  /\ IsOn
  /\ showStatic

\* C10: one move of a drag emits at most one step, also when the accumulated
\* delta after it spans two thresholds or more, and after a step the
\* accumulated delta is 0: the excess is not carried over.
C10_OneStepPerMove ==
  [][lastOp'.op = "DialPointerMove"
       => /\ Len(calls') <= 1
          /\ DialClicks(feedback') <= 1
          /\ calls' # <<>> => accumulatedRotation' = 0
          /\ currentChannel' \in {currentChannel,
                                   StepChannel(currentChannel, 1),
                                   StepChannel(currentChannel, -1)}]_vars

\* C10 witness: a single move of 135 degrees, three thresholds, was made
\* in On and one step was emitted.
C10_Witness ==
  /\ lastOp = [op |-> "DialPointerMove", arg |-> 135]
  /\ Len(calls) = 1
  /\ accumulatedRotation = 0
  /\ IsOn
  /\ Accepted(calls, feedback)
\* C11: at every moment 1 <= currentChannel <= N and 1 <= displayChannel <= N,
\* whatever number, in range or not, a channel change is requested with
C11_ChannelsInRange ==
  /\ currentChannel \in 1..N
  /\ displayChannel \in 1..N

\* a request beyond the last channel, made while On, has been accepted: the
\* channel it selected and the one its pending timer will display are N
C11_Witness ==
  /\ lastOp = [op |-> "RequestChannelChange", arg |-> N + MaxOvershoot]
  /\ calls = <<<<"onChannelChange", N + MaxOvershoot>>>>
  /\ feedback = <<"channelBeep", "staticNoise">>
  /\ currentChannel = N
  /\ staticTimers # <<>>
  /\ staticTimers[Len(staticTimers)].ch = N

\* C12: at every moment exactly one of the four power states is active: the
\* flags (isPoweredOn, isBooting, isShuttingDown) form one of Off
\* (F,F,F), Booting (T,T,F), On (T,F,F), ShuttingDown (T,F,T); isBooting and
\* isShuttingDown are never true together.
C12_ExactlyOnePowerState ==
  /\ IsOff \/ IsBooting \/ IsOn \/ IsShuttingDown
  /\ ~(isBooting /\ isShuttingDown)

\* C13: at every moment at most one boot-complete timer, at most one
\* shutdown-complete timer and at most one display-update timer is pending,
\* a newly scheduled timer having cancelled the pending one of its kind.
C13_OnePendingTimerPerKind ==
  /\ bootTimers <= 1
  /\ shutdownTimers <= 1
  /\ Len(staticTimers) <= 1

\* C14: a key pressed while the power state is Off, Booting or ShuttingDown
\* changes no channel state, schedules nothing and plays nothing.
C14_KeyboardOnlyWhenOn ==
  [][(lastOp'.op = "KeyDown" /\ (IsOff \/ IsBooting \/ IsShuttingDown))
       => /\ UNCHANGED <<channelVars, staticTimers>>
          /\ feedback' = <<>>]_vars

\* the digit keys
DigitKeys == {"0", "1", "2", "3", "4", "5", "6", "7", "8", "9"}

\* C15: a digit key pressed while On whose digit is outside 1..N is ignored:
\* no request is made, currentChannel, displayChannel and showStatic stay
\* as they are, nothing is scheduled and nothing is played; a digit key
\* whose digit d is in 1..N requests channel d, which becomes the current
\* channel unless it already is.
C15_DigitsOutsideRangeIgnored ==
  [][\A key \in DigitKeys :
       (lastOp' = [op |-> "KeyDown", arg |-> key] /\ IsOn)
         => IF parseInt(key) \in 1..N
            THEN /\ calls' = <<<<"onChannelChange", parseInt(key)>>>>
                 /\ currentChannel' = parseInt(key)
                 /\ Accepted(calls', feedback')
                      <=> parseInt(key) # currentChannel
            ELSE /\ calls' = <<>>
                 /\ feedback' = <<>>
                 /\ UNCHANGED <<channelVars, staticTimers>>]_vars

\* C15 witness: '9' was pressed while On on a channel other than the last,
\* with no overlay showing, and nothing has come of it.
C15_Witness ==
  /\ lastOp = [op |-> "KeyDown", arg |-> "9"]
  /\ IsOn
  /\ currentChannel = 3
  /\ displayChannel = 3
  /\ ~showStatic
  /\ staticTimers = <<>>
  /\ feedback = <<>>

\* C16: whenever the dial is not being dragged its rotation is
\* (currentChannel - 1) * degreesPerChannel: after a channel change made by
\* the buttons and after the end of every drag, whether or not the drag
\* produced an accepted step.
C16_DialRestsOnCurrentChannel ==
  ~isDragging => rotation = (currentChannel - 1) * degreesPerChannel

\* C17: a failure of the audio environment is swallowed.  With or without
\* a working AudioContext, PowerToggle starts the boot (from not powered) or
\* the shutdown (from powered) and schedules its timer, PowerLongPress
\* flips greenMode, and a channel change requested while powered and not
\* booting for a target other than the current channel selects the clamped
\* target, raises the overlay and schedules the display update, with
\* displayChannel left to that timer; no handler ends before its changes.
C17_AudioFailureSwallowed ==
  [][/\ lastOp'.op = "PowerToggle"
        => IF isPoweredOn
           THEN /\ isShuttingDown'
                /\ shutdownTimers' = shutdownTimers + 1
           ELSE /\ isPoweredOn' /\ isBooting'
                /\ bootTimers' = bootTimers + 1
     /\ lastOp'.op = "PowerLongPress" => greenMode' = ~greenMode
     /\ (/\ lastOp'.op = "RequestChannelChange"
         /\ isPoweredOn /\ ~isBooting
         /\ lastOp'.arg # currentChannel)
        => /\ currentChannel' = Clamped(lastOp'.arg)
           /\ showStatic'
           /\ staticTimers' # <<>>
           /\ displayChannel' = displayChannel]_vars

\* the failures of a request: a network error, a response that is not OK,
\* a body that does not parse
Failure(response) ==
  response.kind \in {"fetchRejects", "notOk", "jsonRejects"}

\* a contribution result with no contribution in it
Zeroed(value) ==
  /\ value.totalContributions = 0
  /\ \A w \in 1..Len(value.weeks) : \A d \in 1..Len(value.weeks[w]) :
       value.weeks[w][d].count = 0 /\ value.weeks[w][d].level = 0

\* C18: the two data providers never propagate an error: their promises
\* never reject; on a network error, a response that is not OK or a body
\* that does not parse fetchPinnedRepos resolves to the empty list and
\* fetchContributionData to a result with totalContributions 0 and every
\* day at count 0 and level 0; and no outcome changes the power or the
\* channel state.
C18_ProvidersDegradeToEmpty ==
  [][/\ lastOp'.op = "fetchPinnedRepos"
        => /\ pinnedRepos'.settled = "resolved"
           /\ Failure(lastOp'.arg) => pinnedRepos'.value = <<>>
           /\ UNCHANGED <<powerVars, channelVars, timerVars>>
     /\ lastOp'.op = "fetchContributionData"
        => /\ contributionData'.settled = "resolved"
           /\ Failure(lastOp'.arg) => Zeroed(contributionData'.value)
           /\ UNCHANGED <<powerVars, channelVars, timerVars>>
     /\ pinnedRepos'.settled # "rejected"
     /\ contributionData'.settled # "rejected"]_vars

\* C18 witness: while On on channel 2 the request for the pinned
\* repositories met a network error and the list is empty; the request for
\* the contributions had failed before it and its result is the calendar
\* of WeeksInCalendar weeks of zero days.
C18_Witness ==
  /\ lastOp.op = "fetchPinnedRepos"
  /\ lastOp.arg.kind = "fetchRejects"
  /\ pinnedRepos = Resolved(<<>>)
  /\ contributionData.settled = "resolved"
  /\ Len(contributionData.value.weeks) = WeeksInCalendar
  /\ Zeroed(contributionData.value)
  /\ IsOn
  /\ currentChannel = 2

\* the state machine under the power toggle, the long press and the
\* channel-up button
NextLive ==
  \/ PowerToggle
  \/ PowerLongPress
  \/ ChannelUp
  \/ BootComplete
  \/ ShutdownComplete
  \/ StaticTimeout

\* a pending setTimeout entry is run by the event loop: its callback is not
\* put off for ever
TimersFire ==
  /\ WF_vars(BootComplete)
  /\ WF_vars(ShutdownComplete)
  /\ WF_vars(StaticTimeout)

\* the machine with its timers firing, in a browser with or without the Web
\* Audio API
SpecLive == InitAudio /\ [][NextLive]_vars /\ TimersFire

\* the same in a browser with the Web Audio API
SpecLiveWebAudio == Init /\ [][NextLive]_vars /\ TimersFire

\* a step of the user
UserStep == lastOp'.op \in {"PowerToggle", "PowerLongPress", "ChannelUp"}

\* nothing is pending and the machine rests in Off or in On, no overlay up
Settled ==
  /\ bootTimers = 0 /\ shutdownTimers = 0 /\ staticTimers = <<>>
  /\ IsOff \/ IsOn
  /\ ~showStatic

\* C19: the machine never gets stuck.  Once the user acts no more, every
\* pending timer fires and the machine comes to rest in Off or in On with
\* no overlay showing, not in Booting or ShuttingDown; and On can be
\* reached from every state: when the power button is not for ever left
\* alone while the machine is Off, and a boot is not for ever interrupted,
\* the machine is On again and again.
C19_NeverStuck ==
  /\ ([]<><<UserStep>>_vars) \/ <>[]Settled
  /\ (SF_vars(PowerToggle /\ IsOff) /\ SF_vars(BootComplete /\ IsBooting))
       => []<>IsOn

\* C20: PowerLongPress fires only for a press held on the power button for
\* the full 3000ms: the timer that fires is the one of the press in
\* progress.  A press that has ended (by its release, by the pointer leaving
\* the button, or by a release the button never received) produces no
\* PowerLongPress, and a press does not inherit the timer of an earlier one.
C20_LongPressOnlyWhenHeld ==
  [][lastOp'.op = "LongPressTimer"
       => /\ pressed
          /\ Head(pressTimers).own]_vars

\* C21: PowerLongPress in any power state flips greenMode once, plays the
\* confirmation beep, and leaves the power flags, the pending power timers,
\* currentChannel, displayChannel, showStatic and the pending display
\* update as they are.
C21_LongPressFlipsGreenModeOnly ==
  [][lastOp'.op = "PowerLongPress"
       => /\ greenMode' = ~greenMode
          /\ feedback' = <<"channelBeep">>
          /\ UNCHANGED <<powerVars, bootTimers, shutdownTimers,
                         channelVars, staticTimers>>]_vars

\* C21 witness: a long press made while Off, after a power cycle in which
\* channel 3 was chosen, has turned the green mode on.
C21_Witness ==
  /\ lastOp.op = "PowerLongPress"
  /\ IsOff
  /\ greenMode
  /\ currentChannel = 3
  /\ displayChannel = 3
  /\ feedback = <<"channelBeep">>

\* C22: no stale power timer takes effect.  A shutdown-complete callback
\* changes the power flags only in ShuttingDown; a boot-complete callback
\* changes them only in Booting and only when it is the timer of the toggle
\* that began this boot, no older one being pending; Off is entered from
\* ShuttingDown alone.
C22_NoStalePowerTimer ==
  [][/\ (lastOp'.op = "ShutdownComplete" /\ powerVars' # powerVars)
        => IsShuttingDown
     /\ (lastOp'.op = "BootComplete" /\ powerVars' # powerVars)
        => (IsBooting /\ bootTimers = 1)
     /\ (IsOff' /\ ~IsOff) => IsShuttingDown]_vars

\* C23: the clamp comes before the same-channel test.  While On, a channel
\* change requested for a number whose clamp into 1..N is the current
\* channel (N + 1 on channel N, 0 on channel 1) does nothing: no beep, no
\* static noise, showStatic and the channels as they were, no display
\* update scheduled.
C23_ClampBeforeSameChannelTest ==
  [][(/\ lastOp'.op = "RequestChannelChange"
      /\ IsOn
      /\ Clamped(lastOp'.arg) = currentChannel)
       => /\ feedback' = <<>>
          /\ UNCHANGED <<channelVars, staticTimers>>]_vars

\* C24: whenever showStatic is false displayChannel equals currentChannel;
\* the two differ only while a display-update timer is pending; and
\* displayChannel is written by the callback of that timer alone.
C24_DisplayFollowsCurrent ==
  /\ [](/\ ~showStatic => displayChannel = currentChannel
        /\ displayChannel # currentChannel => staticTimers # <<>>)
  /\ [][displayChannel' # displayChannel
         => lastOp'.op = "StaticTimeout"]_vars

\* C24 witness: a change to channel 3 accepted just before the power-off
\* has been displayed after it: the set is Off, the overlay is down and
\* both channels are 3.
C24_Witness ==
  /\ lastOp = [op |-> "StaticTimeout", arg |-> 3]
  /\ IsOff
  /\ ~showStatic
  /\ displayChannel = 3
  /\ currentChannel = 3
  /\ staticTimers = <<>>

\* C25: the dial never sets the channel itself.  currentChannel changes
\* only in a step in which onChannelChange was called, and a dial step
\* emitted while the power state is not On plays the dial click and resets
\* the accumulated delta but leaves currentChannel, displayChannel and
\* showStatic as they are.
C25_DialOnlyRequests ==
  [][/\ currentChannel' # currentChannel => RequestedTarget(calls') # 0
     /\ (/\ lastOp'.op = "DialPointerMove"
         /\ RequestedTarget(calls') # 0
         /\ ~IsOn)
        => /\ feedback' = <<"dialClick">>
           /\ accumulatedRotation' = 0
           /\ UNCHANGED channelVars]_vars

\* C26: the delta a move of a drag adds to the rotation and to the
\* accumulated delta is the difference of the new and the last pointer
\* angle brought into (-180, 180] by a whole turn: a difference of -180
\* counts as +180.
C26_DeltaInHalfOpenInterval ==
  [][(lastOp'.op = "DialPointerMove" /\ isDragging)
       => LET delta == lastOp'.arg IN
          /\ delta > -180
          /\ delta <= 180
          /\ \E k \in {-1, 0, 1} : delta = lastAngle' - lastAngle + 360 * k
          /\ currentChannel' = currentChannel
               => rotation' = rotation + delta]_vars

\* C27: the end of a drag.  The rotation becomes the multiple of the
\* threshold nearest to the rotation at release; the drag is over, so moves
\* are ignored until the next drag start; and the accumulated delta is
\* left alone: it is set to 0 at a drag start and after a step, and changed
\* by nothing but a drag start or a move of a drag.
C27_DragEndSnaps ==
  [][/\ lastOp'.op = "DialPointerUp"
        => /\ rotation' % (360 \div N) = 0
           /\ 2 * Abs(rotation' - rotation) <= 360 \div N
           /\ ~isDragging'
           /\ accumulatedRotation' = accumulatedRotation
     /\ (lastOp'.op = "DialPointerMove" /\ ~isDragging)
        => /\ calls' = <<>>
           /\ UNCHANGED <<rotation, accumulatedRotation, lastAngle,
                          isDragging, channelVars>>
     /\ lastOp'.op = "DialPointerDown"
        => (isDragging' /\ accumulatedRotation' = 0)
     /\ accumulatedRotation' # accumulatedRotation
        => \/ lastOp'.op = "DialPointerDown"
           \/ lastOp'.op = "DialPointerMove" /\ isDragging]_vars

\* C27 witness: a drag of 89 degrees from the position of channel 1, made
\* while Off, has been released: one step was emitted at 45 degrees, 44
\* more were accumulated after it and are still there, and the rotation
\* has gone from 89 to 90.
C27_Witness ==
  /\ lastOp.op = "DialPointerUp"
  /\ ~isDragging
  /\ IsOff
  /\ currentChannel = 1
  /\ rotation = 90
  /\ accumulatedRotation = 44

\* C28: every accepted channel change is displayed in the end.  Whatever
\* power toggles, long presses and power timers come in between, the
\* power-off not cancelling the pending display update, once no more
\* channel changes are requested the machine comes to displayChannel =
\* currentChannel with showStatic false, and stays there.
C28_AcceptedChangeDisplayed ==
  ([]<><<RequestedTarget(calls') # 0>>_vars)
    \/ <>[](displayChannel = currentChannel /\ ~showStatic)

\* C28 witness: the display update of a change to channel 2 has run during
\* the shutdown that was begun right after the change, the green mode on.
C28_Witness ==
  /\ lastOp = [op |-> "StaticTimeout", arg |-> 2]
  /\ IsShuttingDown
  /\ greenMode
  /\ displayChannel = 2
  /\ currentChannel = 2
  /\ ~showStatic

\* C29: the power operations never touch the channel state: PowerToggle,
\* the boot-complete callback and the shutdown-complete callback leave
\* currentChannel and displayChannel as they are, so the channel selected
\* before a power-off is the selected one after the next boot.
C29_PowerKeepsChannels ==
  [][lastOp'.op \in {"PowerToggle", "BootComplete", "ShutdownComplete"}
       => UNCHANGED <<currentChannel, displayChannel>>]_vars

\* C29 witness: a boot has just ended in On with channel 5 selected and
\* displayed, the channel chosen in the power cycle before.
C29_Witness ==
  /\ lastOp.op = "BootComplete"
  /\ IsOn
  /\ currentChannel = 5
  /\ displayChannel = 5
  /\ ~showStatic
  /\ bootTimers = 0
  /\ shutdownTimers = 0

\* the intents of the music player
MusicOps == {"VolumeUp", "VolumeDown", "MusicToggle"}

\* C30: after any sequence of VolumeUp and VolumeDown the volume is within
\* [0, 1], in tenths 0..10 reached in steps of one tenth from 5: VolumeUp
\* adds a tenth and leaves a volume of 1 as it is, VolumeDown takes a tenth
\* and leaves a volume of 0 as it is; and no volume or music intent changes
\* the power state, the channel state or greenMode.
C30_VolumeWithinRange ==
  /\ [](volume \in 0..10)
  /\ [][/\ lastOp'.op = "VolumeUp"
           => volume' = (IF volume = 10 THEN 10 ELSE volume + 1)
        /\ lastOp'.op = "VolumeDown"
           => volume' = (IF volume = 0 THEN 0 ELSE volume - 1)
        /\ lastOp'.op \in MusicOps
           => UNCHANGED <<powerVars, channelVars, timerVars, greenMode>>
       ]_vars

\* C30 witness: VolumeUp was pressed at full volume while the music was
\* playing in the green mode, and the volume is still 1.
C30_Witness ==
  /\ lastOp = [op |-> "VolumeUp", arg |-> 10]
  /\ volume = 10
  /\ musicRef
  /\ musicVolume = 10
  /\ isPlaying
  /\ greenMode

====
